---- MODULE Spec2Model ----
(***************************************************************************)
(* A model of the perfdata crate: the ThresholdRange mini-grammar, the     *)
(* single-token Perfdata parser, the list parser, the constructors and     *)
(* builders, and the canonical formatting.                                 *)
(*                                                                         *)
(* Text is a sequence of one-character strings.  A Value (f64) is a record *)
(* [k, neg, m, x]: k = "fin" stands for (-1)^neg * m * 10^x with m not     *)
(* divisible by 10 (zero is m = 0, x = 0, and keeps its sign), k = "inf"   *)
(* is the infinity of sign neg, k = "nan" is NaN.  Decimal texts of up to  *)
(* nine significant digits denote distinct f64 values whose shortest       *)
(* round-trip representation is the decimal itself, so on the texts and    *)
(* values explored here the decimal record and the f64 agree.              *)
(***************************************************************************)
EXTENDS Integers, Sequences, FiniteSets, TLC

(***************************************************************************)
(* Option<T>: None is the empty sequence, Some(v) the one-element one.     *)
(***************************************************************************)
None == <<>>

Some(v) == <<v>>

IsSome(o) == o # <<>>

(***************************************************************************)
(* Text helpers: the std::str operations the parser calls.                 *)
(***************************************************************************)
\* char::is_whitespace: the characters str::trim strips; a character with
\* no escape in a string is written by its code point
WhiteSpace ==
    {" ", "\t", "\n", "\r", "\f", "U+000B", "U+0085", "U+00A0", "U+1680",
     "U+2000", "U+2001", "U+2002", "U+2003", "U+2004", "U+2005", "U+2006",
     "U+2007", "U+2008", "U+2009", "U+200A", "U+2028", "U+2029", "U+202F",
     "U+205F", "U+3000"}

DigitChars == <<"0", "1", "2", "3", "4", "5", "6", "7", "8", "9">>

IsDigit(c) == \E i \in 1..10 : DigitChars[i] = c

DigitVal(c) == (CHOOSE i \in 1..10 : DigitChars[i] = c) - 1

Drop(s, n) == SubSeq(s, n + 1, Len(s))

Take(s, n) == SubSeq(s, 1, n)

\* str::find(char): the 0-based index of the first c, or -1 when there is none
Find(s, c) ==
    IF \E i \in 1..Len(s) : s[i] = c
    THEN (CHOOSE i \in 1..Len(s) : s[i] = c /\ \A j \in 1..(i - 1) : s[j] # c) - 1
    ELSE -1

Contains(s, c) == \E i \in 1..Len(s) : s[i] = c

StartsWith(s, c) == Len(s) > 0 /\ s[1] = c

EndsWith(s, c) == Len(s) > 0 /\ s[Len(s)] = c

RECURSIVE TrimStart(_)
TrimStart(s) ==
    IF s # <<>> /\ s[1] \in WhiteSpace THEN TrimStart(Tail(s)) ELSE s

RECURSIVE TrimEnd(_)
TrimEnd(s) ==
    IF s # <<>> /\ s[Len(s)] \in WhiteSpace THEN TrimEnd(Take(s, Len(s) - 1)) ELSE s

Trim(s) == TrimEnd(TrimStart(s))

\* str::split(char): the pieces between the delimiters, always at least one
RECURSIVE Split(_, _)
Split(s, c) ==
    LET i == Find(s, c)
    IN IF i < 0 THEN <<s>> ELSE <<Take(s, i)>> \o Split(Drop(s, i + 1), c)

\* ASCII lower-casing of the letters the float parser looks at
Lower(c) ==
    CASE c = "I" -> "i" [] c = "N" -> "n" [] c = "F" -> "f" [] c = "T" -> "t"
      [] c = "Y" -> "y" [] c = "A" -> "a" [] OTHER -> c

LowerAll(s) == [i \in 1..Len(s) |-> Lower(s[i])]

(***************************************************************************)
(* Value = f64.                                                            *)
(***************************************************************************)
RECURSIVE Pow10(_)
Pow10(n) == IF n <= 0 THEN 1 ELSE 10 * Pow10(n - 1)

RECURSIVE NumDigits(_)
NumDigits(n) == IF n < 10 THEN 1 ELSE 1 + NumDigits(n \div 10)

RECURSIVE Normalise(_, _)
Normalise(m, x) ==
    IF m = 0 THEN <<0, 0>>
    ELSE IF m % 10 = 0 THEN Normalise(m \div 10, x + 1) ELSE <<m, x>>

Dec(neg, m, x) ==
    LET n == Normalise(m, x) IN [k |-> "fin", neg |-> neg, m |-> n[1], x |-> n[2]]

Num(i) == IF i < 0 THEN Dec(TRUE, 0 - i, 0) ELSE Dec(FALSE, i, 0)

INFINITY == [k |-> "inf", neg |-> FALSE, m |-> 0, x |-> 0]

NEG_INFINITY == [k |-> "inf", neg |-> TRUE, m |-> 0, x |-> 0]

NAN == [k |-> "nan", neg |-> FALSE, m |-> 0, x |-> 0]

IsNaN(v) == v.k = "nan"

IsZero(v) == v.k = "fin" /\ v.m = 0

\* the decimal exponent of the leading digit
Adj(v) == v.x + NumDigits(v.m) - 1

\* magnitudes of two finite non-zero values
MagLt(a, b) ==
    IF Adj(a) # Adj(b) THEN Adj(a) < Adj(b)
    ELSE LET na == NumDigits(a.m)
             nb == NumDigits(b.m)
             w == IF na > nb THEN na ELSE nb
         IN a.m * Pow10(w - na) < b.m * Pow10(w - nb)

\* f64 `<`
ValLt(a, b) ==
    IF IsNaN(a) \/ IsNaN(b) THEN FALSE
    ELSE IF IsZero(a) /\ IsZero(b) THEN FALSE
    ELSE IF a.k = "inf" THEN a.neg /\ ~(b.k = "inf" /\ b.neg)
    ELSE IF b.k = "inf" THEN ~b.neg
    ELSE IF IsZero(a) THEN ~b.neg
    ELSE IF IsZero(b) THEN a.neg
    ELSE IF a.neg # b.neg THEN a.neg
    ELSE IF a.neg THEN MagLt(b, a) ELSE MagLt(a, b)

\* f64 `==`
ValEq(a, b) ==
    IF IsNaN(a) \/ IsNaN(b) THEN FALSE
    ELSE IF IsZero(a) /\ IsZero(b) THEN TRUE
    ELSE a = b

\* f64 `<=`
ValLe(a, b) == ValLt(a, b) \/ ValEq(a, b)

(***************************************************************************)
(* str::parse::<f64>() (core::num::dec2flt) and Display for f64.           *)
(***************************************************************************)
FloatOk(v) == [ok |-> TRUE, v |-> v, kind |-> "None"]

FloatErr(kind) == [ok |-> FALSE, v |-> NAN, kind |-> kind]

RECURSIVE DigitRun(_)
DigitRun(s) == IF s # <<>> /\ IsDigit(s[1]) THEN 1 + DigitRun(Tail(s)) ELSE 0

RECURSIVE DigitsToNat(_)
DigitsToNat(s) ==
    IF s = <<>> THEN 0
    ELSE DigitsToNat(Take(s, Len(s) - 1)) * 10 + DigitVal(s[Len(s)])

RECURSIVE NatToDigits(_)
NatToDigits(n) ==
    IF n < 10 THEN <<DigitChars[n + 1]>>
    ELSE NatToDigits(n \div 10) \o <<DigitChars[(n % 10) + 1]>>

Zeros(n) == [i \in 1..n |-> "0"]

\* a natural number as its decimal digits, and back
RECURSIVE NatDigits(_)
NatDigits(n) == IF n < 10 THEN <<n>> ELSE NatDigits(n \div 10) \o <<n % 10>>

RECURSIVE DigitsNat(_)
DigitsNat(s) ==
    IF s = <<>> THEN 0 ELSE DigitsNat(Take(s, Len(s) - 1)) * 10 + s[Len(s)]

\* the product of two digit sequences: the column sums, then the carries
RECURSIVE SumProducts(_, _, _, _)
SumProducts(a, b, i, p) ==
    IF p > Len(a) THEN 0
    ELSE (IF i + 1 - p \in 1..Len(b) THEN a[p] * b[i + 1 - p] ELSE 0)
         + SumProducts(a, b, i, p + 1)

RECURSIVE Carried(_, _)
Carried(raw, carry) ==
    IF raw = <<>> THEN (IF carry = 0 THEN <<>> ELSE NatDigits(carry))
    ELSE Carried(Take(raw, Len(raw) - 1), (raw[Len(raw)] + carry) \div 10)
         \o <<(raw[Len(raw)] + carry) % 10>>

MulDigits(a, b) ==
    Carried([i \in 1..(Len(a) + Len(b) - 1) |-> SumProducts(a, b, i, 1)], 0)

\* the digits q of a fixed-point number with cut fractional digits: its
\* integer part, and the integer nearest to it
WholePart(q, cut) == IF Len(q) <= cut THEN 0 ELSE DigitsNat(Take(q, Len(q) - cut))

NearestWhole(q, cut) ==
    WholePart(q, cut) + (IF Len(q) >= cut /\ q[Len(q) - cut + 1] >= 5 THEN 1 ELSE 0)

\* half of the least positive f64, 2^-1075, in units of 1e-324:
\* 2.470328229206232720882843964341...
HalfUlp ==
    <<2, 4, 7, 0, 3, 2, 8, 2, 2, 9, 2, 0, 6, 2, 3, 2, 7, 2, 0, 8, 8, 2, 8, 4, 3, 9,
      6, 4, 3, 4, 1>>

\* 1e-324 in units of the least positive f64, 2^-1074:
\* 0.202402253307310618352495346718...
UlpInverse ==
    <<2, 0, 2, 4, 0, 2, 2, 5, 3, 3, 0, 7, 3, 1, 0, 6, 1, 8, 3, 5, 2, 4, 9, 5, 3, 4,
      6, 7, 1, 8>>

\* n halves of 2^-1074 in units of 1e-324, with Len(HalfUlp) - 1 fractional digits
HalfUlps(n) == MulDigits(NatDigits(n), HalfUlp)

\* the multiple of 2^-1074 nearest to m * 10^(-324 - j)
Ulps(m, j) == NearestWhole(MulDigits(NatDigits(m), UlpInverse), Len(UlpInverse) + j)

\* the multiple of the greatest power of ten in lo..hi, else the integer
\* nearest to the exact value
RECURSIVE ShortestIn(_, _, _, _)
ShortestIn(lo, hi, e, nearest) ==
    IF e = 0 THEN nearest
    ELSE IF (hi \div Pow10(e)) * Pow10(e) >= lo THEN (hi \div Pow10(e)) * Pow10(e)
    ELSE ShortestIn(lo, hi, e - 1, nearest)

\* the shortest decimal, in units of 1e-324, that reads back as k * 2^-1074
Shortest(k) ==
    ShortestIn(WholePart(HalfUlps(2 * k - 1), Len(HalfUlp) - 1) + 1,
               WholePart(HalfUlps(2 * k + 1), Len(HalfUlp) - 1), 9,
               NearestWhole(HalfUlps(2 * k), Len(HalfUlp) - 1))

\* a value finer than 1e-323 is rounded to a multiple of 2^-1074
Subnormal(neg, k) == IF k = 0 THEN Dec(neg, 0, 0) ELSE Dec(neg, Shortest(k), -324)

\* the value is at least 2^1024 - 2^970 = 1.797693134862315807...e308
Overflows(d) ==
    \/ Adj(d) > 308
    \/ /\ Adj(d) = 308
       /\ IF NumDigits(d.m) >= 10 THEN d.m >= 1797693135
          ELSE d.m * Pow10(9 - NumDigits(d.m)) > 179769313

\* the f64 nearest to the digits m scaled by 10^x, as the shortest decimal
\* that reads back as it
Rounded(neg, m, d) ==
    IF m = 0 THEN d
    ELSE IF Overflows(d) THEN [k |-> "inf", neg |-> neg, m |-> 0, x |-> 0]
    ELSE IF Adj(d) < -324 THEN Dec(neg, 0, 0)
    ELSE IF d.x < -323 THEN Subnormal(neg, Ulps(d.m, -324 - d.x))
    ELSE d

Decimal(neg, m, x) == Rounded(neg, m, Dec(neg, m, x))

\* the exponent digits: at least one, and nothing after them
parse_exponent(neg, int, frac, eneg, digits) ==
    IF digits = <<>> \/ DigitRun(digits) # Len(digits) THEN None
    ELSE Some(Decimal(neg, DigitsToNat(int \o frac),
                      (IF eneg THEN 0 - DigitsToNat(digits) ELSE DigitsToNat(digits))
                      - Len(frac)))

\* after `e` or `E`: an optional sign
parse_scientific(neg, int, frac, rest) ==
    IF rest # <<>> /\ rest[1] \in {"+", "-"}
    THEN parse_exponent(neg, int, frac, rest[1] = "-", Tail(rest))
    ELSE parse_exponent(neg, int, frac, FALSE, rest)

\* after the digits and the fraction: at least one digit so far, then the
\* end of the text or an exponent
parse_after_digits(neg, int, frac, rest) ==
    IF Len(int) + Len(frac) = 0 THEN None
    ELSE IF rest = <<>> THEN Some(Decimal(neg, DigitsToNat(int \o frac), 0 - Len(frac)))
    ELSE IF rest[1] \in {"e", "E"} THEN parse_scientific(neg, int, frac, Tail(rest))
    ELSE None

\* after the `.`: the fraction digits
parse_fraction(neg, int, rest, nf) ==
    parse_after_digits(neg, int, Take(rest, nf), Drop(rest, nf))

\* after the integer digits: an optional `.` and fraction
parse_after_int(neg, int, rest) ==
    IF StartsWith(rest, ".")
    THEN parse_fraction(neg, int, Tail(rest), DigitRun(Tail(rest)))
    ELSE parse_after_digits(neg, int, <<>>, rest)

parse_digits(s, neg, ni) == parse_after_int(neg, Take(s, ni), Drop(s, ni))

\* the digits, the optional fraction and the optional exponent of a number;
\* the whole text must be consumed
parse_number(s, neg) == parse_digits(s, neg, DigitRun(s))

InfOrNaN(l, neg) ==
    IF l = <<"n", "a", "n">> THEN Some(NAN)
    ELSE IF l = <<"i", "n", "f">> \/ l = <<"i", "n", "f", "i", "n", "i", "t", "y">>
         THEN Some([k |-> "inf", neg |-> neg, m |-> 0, x |-> 0])
    ELSE None

parse_inf_nan(s, neg) == InfOrNaN(LowerAll(s), neg)

\* a number if the text is one, else inf / nan, else invalid
NumberOrSpecial(n, i) ==
    IF IsSome(n) THEN FloatOk(n[1])
    ELSE IF IsSome(i) THEN FloatOk(i[1])
    ELSE FloatErr("Invalid")

parse_unsigned(body, neg) ==
    IF body = <<>> THEN FloatErr("Invalid")
    ELSE NumberOrSpecial(parse_number(body, neg), parse_inf_nan(body, neg))

parse_float(s) ==
    IF s = <<>> THEN FloatErr("Empty")
    ELSE IF s[1] \in {"-", "+"} THEN parse_unsigned(Tail(s), s[1] = "-")
    ELSE parse_unsigned(s, FALSE)

FmtDigits(sign, ds, x) ==
    IF x >= 0 THEN sign \o ds \o Zeros(x)
    ELSE IF 0 - x < Len(ds)
         THEN sign \o Take(ds, Len(ds) + x) \o <<".">> \o Drop(ds, Len(ds) + x)
    ELSE sign \o <<"0", ".">> \o Zeros(0 - x - Len(ds)) \o ds

\* `{}` of an f64: no exponent notation, the shortest digits that round-trip
FmtValue(v) ==
    CASE v.k = "nan" -> <<"N", "a", "N">>
      [] v.k = "inf" -> (IF v.neg THEN <<"-">> ELSE <<>>) \o <<"i", "n", "f">>
      [] OTHER -> FmtDigits(IF v.neg THEN <<"-">> ELSE <<>>, NatToDigits(v.m), v.x)

(***************************************************************************)
(* Results.  A call returns Ok(val), returns Err(e) or panics.             *)
(* info is the payload of the error: the unit text of UnknownUnit, the     *)
(* kind of the ParseFloatError of ParseValueError.                         *)
(***************************************************************************)
Ok(v) == [tag |-> "Ok", val |-> v]

Err(e) == [tag |-> "Err", e |-> e, info |-> <<>>]

UnknownUnit(u) == [tag |-> "Err", e |-> "UnknownUnit", info |-> u]

ParseValueError(kind) == [tag |-> "Err", e |-> "ParseValueError", info |-> <<kind>>]

Panic == [tag |-> "Panic"]

PerfdataParseError ==
    {"MissingEqualsSign", "MissingValue", "MissingLabel", "ParseValueError",
     "ThresholdEmpty", "UnknownUnit", "LabelContainsSingleQuote"}

(***************************************************************************)
(* ThresholdRange (thresholds.rs).                                         *)
(***************************************************************************)
ThresholdRange_new(inside_, start, end) ==
    IF ValLt(end, start)
    THEN [alert_inside |-> inside_, start |-> end, end |-> start]
    ELSE [alert_inside |-> inside_, start |-> start, end |-> end]

outside(start, end) == ThresholdRange_new(FALSE, start, end)

inside(start, end) == ThresholdRange_new(TRUE, start, end)

above_pos(limit_top) == outside(Num(0), limit_top)

below(limit_bottom) == outside(limit_bottom, INFINITY)

above(limit_top) == outside(NEG_INFINITY, limit_top)

\* mutant: the bounds excluded
is_alert_open(self, value) ==
    LET is_inside == ValLt(self.start, value) /\ ValLt(value, self.end)
    IN IF self.alert_inside THEN is_inside ELSE ~is_inside

is_alert(self, value) ==
    LET is_inside == ValLe(self.start, value) /\ ValLe(value, self.end)
    IN IF self.alert_inside THEN is_inside ELSE ~is_inside

\* #[derive(PartialEq)] of ThresholdRange
RangeEq(a, b) ==
    /\ a.alert_inside = b.alert_inside
    /\ ValEq(a.start, b.start)
    /\ ValEq(a.end, b.end)

\* mutant: the arm of start 0 tried before the arm of (0, +inf)
ThresholdRange_fmt_reordered(self) ==
    LET inside_ == IF self.alert_inside THEN <<"@">> ELSE <<>>
    IN IF ValEq(self.start, NEG_INFINITY) /\ ValEq(self.end, INFINITY)
       THEN inside_ \o <<"~", ":">>
       ELSE IF ValEq(self.start, Num(0))
       THEN inside_ \o FmtValue(self.end)
       ELSE IF ValEq(self.start, NEG_INFINITY)
       THEN inside_ \o <<"~", ":">> \o FmtValue(self.end)
       ELSE inside_ \o FmtValue(self.start) \o <<":">> \o FmtValue(self.end)

\* Display for ThresholdRange: float literal patterns match by `==`
ThresholdRange_fmt(self) ==
    LET inside_ == IF self.alert_inside THEN <<"@">> ELSE <<>>
    IN IF ValEq(self.start, NEG_INFINITY) /\ ValEq(self.end, INFINITY)
       THEN inside_ \o <<"~", ":">>
       ELSE IF ValEq(self.start, Num(0)) /\ ValEq(self.end, INFINITY)
       THEN inside_ \o <<"0", ":">>
       ELSE IF ValEq(self.start, Num(0))
       THEN inside_ \o FmtValue(self.end)
       ELSE IF ValEq(self.start, NEG_INFINITY)
       THEN inside_ \o <<"~", ":">> \o FmtValue(self.end)
       ELSE inside_ \o FmtValue(self.start) \o <<":">> \o FmtValue(self.end)

(***************************************************************************)
(* The range grammar (parser.rs).                                          *)
(***************************************************************************)
INSIDE_MARKER == "@"

NEG_INF_MARKER == <<"~">>

RANGE_DELIMITER == ":"

START_DEFAULT == Num(0)

END_DEFAULT == INFINITY

\* `?` on the result of str::parse: the ParseFloatError becomes ParseValueError
FromFloat(f) == IF f.ok THEN Ok(f.v) ELSE ParseValueError(f.kind)

\* mutant: the NEG_INF_MARKER read as a number
parse_range_no_marker(range, default) ==
    IF range = <<>> THEN Ok(default)
    ELSE FromFloat(parse_float(range))

parse_range(range, default) ==
    IF range = <<>> THEN Ok(default)
    ELSE IF range = NEG_INF_MARKER THEN Ok(NEG_INFINITY)
    ELSE FromFloat(parse_float(range))

\* the tail of from_str: the first error, START before END, else the range
RangeOf(inside_, parsed_start, parsed_end) ==
    IF parsed_start.tag # "Ok" THEN parsed_start
    ELSE IF parsed_end.tag # "Ok" THEN parsed_end
    ELSE IF inside_ THEN Ok(inside(parsed_start.val, parsed_end.val))
    ELSE Ok(outside(parsed_start.val, parsed_end.val))

\* mutant: a text without colon read as START, END left at its default
SplitRange_bare_start(inside_, range, colon) ==
    IF colon >= 0
    THEN RangeOf(inside_, parse_range(Take(range, colon), START_DEFAULT),
                 parse_range(Drop(range, colon + 1), END_DEFAULT))
    ELSE RangeOf(inside_, parse_range(range, START_DEFAULT), Ok(END_DEFAULT))

\* the match on range.split_once(RANGE_DELIMITER); colon is the index of the
\* first delimiter, negative when there is none
SplitRange(inside_, range, colon) ==
    IF colon >= 0
    THEN RangeOf(inside_, parse_range(Take(range, colon), START_DEFAULT),
                 parse_range(Drop(range, colon + 1), END_DEFAULT))
    ELSE RangeOf(inside_, Ok(START_DEFAULT), parse_range(range, END_DEFAULT))

MarkedRange(inside_, range) == SplitRange(inside_, range, Find(range, RANGE_DELIMITER))

from_str(s) ==
    IF s = <<>> THEN Err("ThresholdEmpty")
    ELSE MarkedRange(StartsWith(s, INSIDE_MARKER),
                     IF StartsWith(s, INSIDE_MARKER) THEN Drop(s, 1) ELSE s)

(***************************************************************************)
(* Unit and Perfdata (perf/mod.rs, perf/data.rs).                          *)
(***************************************************************************)
UnitTags == {"None", "Percentage", "Seconds", "Bytes", "Counter"}

Unit(tag, v) == [tag |-> tag, v |-> Some(v)]

Undetermined == [tag |-> "Undetermined", v |-> None]

\* mutant: the byte suffix written in upper case
Unit_fmt_upper(u) ==
    CASE u.tag = "None" -> FmtValue(u.v[1])
      [] u.tag = "Percentage" -> FmtValue(u.v[1]) \o <<"%">>
      [] u.tag = "Seconds" -> FmtValue(u.v[1]) \o <<"s">>
      [] u.tag = "Bytes" -> FmtValue(u.v[1]) \o <<"B">>
      [] u.tag = "Counter" -> FmtValue(u.v[1]) \o <<"c">>
      [] u.tag = "Undetermined" -> <<"U">>

\* Display for Unit
Unit_fmt(u) ==
    CASE u.tag = "None" -> FmtValue(u.v[1])
      [] u.tag = "Percentage" -> FmtValue(u.v[1]) \o <<"%">>
      [] u.tag = "Seconds" -> FmtValue(u.v[1]) \o <<"s">>
      [] u.tag = "Bytes" -> FmtValue(u.v[1]) \o <<"b">>
      [] u.tag = "Counter" -> FmtValue(u.v[1]) \o <<"c">>
      [] u.tag = "Undetermined" -> <<"U">>

Perfdata_new(label, u) ==
    [label |-> label, unit |-> u, warn |-> None, crit |-> None,
     min |-> None, max |-> None]

unit(label, value) == Perfdata_new(label, Unit("None", value))

percentage(label, value) == Perfdata_new(label, Unit("Percentage", value))

seconds(label, value) == Perfdata_new(label, Unit("Seconds", value))

bytes(label, value) == Perfdata_new(label, Unit("Bytes", value))

counter(label, value) == Perfdata_new(label, Unit("Counter", value))

undetermined(label) == Perfdata_new(label, Undetermined)

\* mutant: the value stored in the other limit
with_min_sets_max(self, value) == [self EXCEPT !.max = Some(value)]

with_min(self, value) == [self EXCEPT !.min = Some(value)]

with_max(self, value) == [self EXCEPT !.max = Some(value)]

with_warn(self, range) == [self EXCEPT !.warn = Some(range)]

with_crit(self, range) == [self EXCEPT !.crit = Some(range)]

\* mutant: an Undetermined record read as the value 0
value_or_zero(self) ==
    IF self.unit.tag = "Undetermined" THEN Some(Num(0)) ELSE self.unit.v

value(self) == self.unit.v

label(self) == self.label

\* mutant: a missing range alerts
is_warn_unset_alerts(self) ==
    IF IsSome(value(self))
    THEN IF IsSome(self.warn) THEN is_alert(self.warn[1], value(self)[1]) ELSE TRUE
    ELSE FALSE

is_warn(self) ==
    IF IsSome(value(self))
    THEN IF IsSome(self.warn) THEN is_alert(self.warn[1], value(self)[1]) ELSE FALSE
    ELSE FALSE

is_crit(self) ==
    IF IsSome(value(self))
    THEN IF IsSome(self.crit) THEN is_alert(self.crit[1], value(self)[1]) ELSE FALSE
    ELSE FALSE

\* mutant: the warn range looked at first
Perfdata_status_warn_first(self) ==
    IF is_warn(self) THEN "Warning"
    ELSE IF is_crit(self) THEN "Critical"
    ELSE "OK"

Perfdata_status(self) ==
    IF is_crit(self) THEN "Critical"
    ELSE IF is_warn(self) THEN "Warning"
    ELSE "OK"

\* mutant: the limits min and max not looked at
has_any_thresholds(self) == IsSome(self.warn) \/ IsSome(self.crit)

has_any_thresholds_or_limits(self) ==
    IsSome(self.warn) \/ IsSome(self.crit) \/ IsSome(self.min) \/ IsSome(self.max)

\* #[derive(PartialEq)] of Unit, Option<ThresholdRange>, Option<Value>, Perfdata
UnitEq(a, b) ==
    /\ a.tag = b.tag
    /\ a.tag # "Undetermined" => ValEq(a.v[1], b.v[1])

OptRangeEq(a, b) ==
    /\ IsSome(a) = IsSome(b)
    /\ IsSome(a) /\ IsSome(b) => RangeEq(a[1], b[1])

OptValEq(a, b) ==
    /\ IsSome(a) = IsSome(b)
    /\ IsSome(a) /\ IsSome(b) => ValEq(a[1], b[1])

PerfdataEq(a, b) ==
    /\ a.label = b.label
    /\ UnitEq(a.unit, b.unit)
    /\ OptRangeEq(a.warn, b.warn)
    /\ OptRangeEq(a.crit, b.crit)
    /\ OptValEq(a.min, b.min)
    /\ OptValEq(a.max, b.max)

fmt_threshold_range(th) ==
    IF IsSome(th) THEN ThresholdRange_fmt(th[1]) \o <<";">> ELSE <<";">>

fmt_threshold_value(th) ==
    IF IsSome(th) THEN FmtValue(th[1]) \o <<";">> ELSE <<";">>

\* Display for Perfdata
Perfdata_fmt(self) ==
    <<"'">> \o self.label \o <<"'", "=">> \o Unit_fmt(self.unit) \o <<";">>
    \o (IF has_any_thresholds_or_limits(self)
        THEN fmt_threshold_range(self.warn) \o fmt_threshold_range(self.crit)
             \o fmt_threshold_value(self.min) \o fmt_threshold_value(self.max)
        ELSE <<>>)

(***************************************************************************)
(* The token grammar (parser.rs).                                          *)
(***************************************************************************)
LABEL_DELIMITER == "="

DATA_DELIMITER == ";"

LABEL_QUOTE == "'"

\* no quote may be left in the label, and the label may not be empty
CheckedLabel(lbl) ==
    IF Contains(lbl, LABEL_QUOTE) THEN Err("LabelContainsSingleQuote")
    ELSE IF lbl = <<>> THEN Err("MissingLabel")
    ELSE Ok(lbl)

\* &label[1..label.len() - 1] panics when the range starts after its end
Unquoted(trimmed) ==
    IF StartsWith(trimmed, LABEL_QUOTE) /\ EndsWith(trimmed, LABEL_QUOTE)
    THEN IF 1 > Len(trimmed) - 1 THEN Panic
         ELSE CheckedLabel(SubSeq(trimmed, 2, Len(trimmed) - 1))
    ELSE CheckedLabel(trimmed)

parse_label(input) == Unquoted(Trim(input))

\* the index of the first character that is not `.`, `-` or a digit
RECURSIVE NumericRun(_)
NumericRun(s) ==
    IF s # <<>> /\ (s[1] = "." \/ s[1] = "-" \/ IsDigit(s[1]))
    THEN 1 + NumericRun(Tail(s)) ELSE 0

\* mutant: the unit text matched without regard to case
WithUnit_any_case(lbl, f, u) ==
    IF ~f.ok THEN ParseValueError(f.kind)
    ELSE CASE u = <<>> -> Ok(unit(lbl, f.v))
           [] u = <<"s">> \/ u = <<"S">> -> Ok(seconds(lbl, f.v))
           [] u = <<"b">> \/ u = <<"B">> -> Ok(bytes(lbl, f.v))
           [] u = <<"c">> \/ u = <<"C">> -> Ok(counter(lbl, f.v))
           [] u = <<"%">> -> Ok(percentage(lbl, f.v))
           [] OTHER -> UnknownUnit(u)

\* the parsed number and the match on the unit text
WithUnit(lbl, f, u) ==
    IF ~f.ok THEN ParseValueError(f.kind)
    ELSE CASE u = <<>> -> Ok(unit(lbl, f.v))
           [] u = <<"s">> -> Ok(seconds(lbl, f.v))
           [] u = <<"b">> -> Ok(bytes(lbl, f.v))
           [] u = <<"c">> -> Ok(counter(lbl, f.v))
           [] u = <<"%">> -> Ok(percentage(lbl, f.v))
           [] OTHER -> UnknownUnit(u)

SplitUnit(lbl, val, split_at) ==
    WithUnit(lbl, parse_float(Take(val, split_at)), Drop(val, split_at))

parse_perfdata_with_unit(lbl, val) ==
    IF val = <<"U">> \/ val = <<"u">> THEN Ok(undetermined(lbl))
    ELSE SplitUnit(lbl, val, NumericRun(val))

\* mutant: an empty piece handed on as a datapoint
next_datapoint_keep_empty(datapoints, i) ==
    IF i <= Len(datapoints) THEN Some(datapoints[i]) ELSE None

\* the i-th call of next_datapoint on the iterator over the pieces
next_datapoint(datapoints, i) ==
    IF i <= Len(datapoints) /\ datapoints[i] # <<>> THEN Some(datapoints[i]) ELSE None

\* the steps of try_from after the value: each is skipped when its datapoint
\* is None, and returns the error of its parse
SetWarn(p, parsed_warn) ==
    IF parsed_warn.tag # "Ok" THEN parsed_warn ELSE Ok(with_warn(p, parsed_warn.val))

SetCrit(p, parsed_crit) ==
    IF parsed_crit.tag # "Ok" THEN parsed_crit ELSE Ok(with_crit(p, parsed_crit.val))

SetMin(p, parsed_min) ==
    IF parsed_min.tag # "Ok" THEN parsed_min ELSE Ok(with_min(p, parsed_min.val))

SetMax(p, parsed_max) ==
    IF parsed_max.tag # "Ok" THEN parsed_max ELSE Ok(with_max(p, parsed_max.val))

WarnStep(r, warn) ==
    IF r.tag # "Ok" THEN r
    ELSE IF IsSome(warn) THEN SetWarn(r.val, from_str(warn[1])) ELSE r

CritStep(r, crit) ==
    IF r.tag # "Ok" THEN r
    ELSE IF IsSome(crit) THEN SetCrit(r.val, from_str(crit[1])) ELSE r

MinStep(r, min) ==
    IF r.tag # "Ok" THEN r
    ELSE IF IsSome(min) THEN SetMin(r.val, FromFloat(parse_float(min[1]))) ELSE r

MaxStep(r, max) ==
    IF r.tag # "Ok" THEN r
    ELSE IF IsSome(max) THEN SetMax(r.val, FromFloat(parse_float(max[1]))) ELSE r

\* the value must be there; then the record with its unit and the four steps
ValueStep(lbl, datapoints, val) ==
    IF ~IsSome(val) THEN Err("MissingValue")
    ELSE MaxStep(MinStep(CritStep(WarnStep(parse_perfdata_with_unit(lbl, val[1]),
                                           next_datapoint(datapoints, 2)),
                                  next_datapoint(datapoints, 3)),
                         next_datapoint(datapoints, 4)),
                 next_datapoint(datapoints, 5))

LabelStep(parsed_label, datapoints) ==
    IF parsed_label.tag # "Ok" THEN parsed_label
    ELSE ValueStep(parsed_label.val, datapoints, next_datapoint(datapoints, 1))

\* eq is the index of the first LABEL_DELIMITER
SplitLabel(text_, eq) ==
    IF eq < 0 THEN Err("MissingEqualsSign")
    ELSE LabelStep(parse_label(Take(text_, eq)),
                   Split(Drop(text_, eq + 1), DATA_DELIMITER))

try_from(text_) == SplitLabel(text_, Find(text_, LABEL_DELIMITER))

PushToken(perfdata, left) ==
    IF left # <<>> THEN Append(perfdata, try_from(left)) ELSE perfdata

\* the while loop of parse_from_list: the results pushed so far and the rest
RECURSIVE parse_list_loop(_, _)
\* the body of the loop: equals_idx found, data_idx the index of the next
\* space counted from equals_idx, negative when there is none
ListStep(remainder, perfdata, equals_idx, data_idx) ==
    IF data_idx >= 0
    THEN parse_list_loop(Drop(remainder, equals_idx + data_idx),
                         PushToken(perfdata, Take(remainder, equals_idx + data_idx)))
    ELSE Append(perfdata, try_from(remainder))

\* mutant: a word before the label cut off as a token of its own
ListAtEquals_split_words(remainder, perfdata, equals_idx) ==
    IF equals_idx < 0 THEN perfdata
    ELSE IF Find(remainder, " ") >= 0 /\ Find(remainder, " ") < equals_idx
    THEN parse_list_loop(Trim(Drop(remainder, Find(remainder, " "))),
                         PushToken(perfdata, Take(remainder, Find(remainder, " "))))
    ELSE ListStep(remainder, perfdata, equals_idx,
                  Find(Drop(remainder, equals_idx), " "))

ListAtEquals(remainder, perfdata, equals_idx) ==
    IF equals_idx < 0 THEN perfdata
    ELSE ListStep(remainder, perfdata, equals_idx,
                  Find(Drop(remainder, equals_idx), " "))

parse_list_loop(remainder, perfdata) ==
    ListAtEquals(remainder, perfdata, Find(remainder, "="))

\* a panic of the single-token parser unwinds through the list parser
Unwound(perfdata) ==
    IF \E i \in 1..Len(perfdata) : perfdata[i].tag = "Panic" THEN Panic
    ELSE [tag |-> "Vec", val |-> perfdata]

parse_from_list(s) == Unwound(parse_list_loop(Trim(s), <<>>))

\* mutant: the prefix cut off before the found `=`
LoopBody_cut_at_equals(remainder, perfdata, equals_idx, data_idx) ==
    IF data_idx >= 0
    THEN [remainder |-> Drop(remainder, equals_idx),
          perfdata |-> PushToken(perfdata, Take(remainder, equals_idx))]
    ELSE [remainder |-> <<>>, perfdata |-> Append(perfdata, try_from(remainder))]

\* one pass through the body of the while loop: the remainder and the
\* results after it
LoopBody(remainder, perfdata, equals_idx, data_idx) ==
    IF data_idx >= 0
    THEN [remainder |-> Drop(remainder, equals_idx + data_idx),
          perfdata |-> PushToken(perfdata, Take(remainder, equals_idx + data_idx))]
    ELSE [remainder |-> <<>>, perfdata |-> Append(perfdata, try_from(remainder))]

loop_iteration(remainder, perfdata) ==
    LoopBody(remainder, perfdata, Find(remainder, "="),
             Find(Drop(remainder, Find(remainder, "=")), " "))

(***************************************************************************)
(* PerfdataSet (perf/dataset.rs): the records in a Vec.                    *)
(***************************************************************************)
PerfdataSet_new == [data |-> <<>>]

\* mutant: a record of the same label is replaced
add_replacing(self, p) ==
    IF \E i \in 1..Len(self.data) : self.data[i].label = p.label
    THEN [self EXCEPT !.data = [i \in 1..Len(self.data) |->
                                   IF self.data[i].label = p.label THEN p
                                   ELSE self.data[i]]]
    ELSE [self EXCEPT !.data = Append(self.data, p)]

add(self, p) == [self EXCEPT !.data = Append(self.data, p)]

is_empty(self) == Len(self.data) = 0

data(self) == self.data

critical(self) == SelectSeq(data(self), is_crit)

has_critical(self) == Len(critical(self)) > 0

\* mutant: a record that is also critical left out
warning_only(self) == SelectSeq(data(self), LAMBDA p : is_warn(p) /\ ~is_crit(p))

warning(self) == SelectSeq(data(self), is_warn)

has_warning(self) == Len(warning(self)) > 0

\* mutant: the warning view looked at first
PerfdataSet_status_warn_first(self) ==
    IF has_warning(self) THEN "Warning"
    ELSE IF has_critical(self) THEN "Critical"
    ELSE "OK"

PerfdataSet_status(self) ==
    IF has_critical(self) THEN "Critical"
    ELSE IF has_warning(self) THEN "Warning"
    ELSE "OK"

\* From<Vec<Perfdata>> and FromIterator
PerfdataSet_from(vec) == [data |-> vec]

from_iter(iter) == [data |-> iter]

\* mutant: the separator written after every record
RECURSIVE fmt_loop_trailing(_, _)
fmt_loop_trailing(self, i) ==
    IF i > Len(self.data) THEN <<>>
    ELSE Perfdata_fmt(self.data[i]) \o <<" ">> \o fmt_loop_trailing(self, i + 1)

\* the for loop of Display for PerfdataSet, from the i-th record on
RECURSIVE fmt_loop(_, _)
fmt_loop(self, i) ==
    IF i > Len(self.data) THEN <<>>
    ELSE Perfdata_fmt(self.data[i])
         \o (IF i # Len(self.data) THEN <<" ">> ELSE <<>>)
         \o fmt_loop(self, i + 1)

PerfdataSet_fmt(self) == fmt_loop(self, 1)

(***************************************************************************)
(* State.                                                                  *)
(*   text  the text at hand: typed by the caller or produced by to_string  *)
(*   pd    the Perfdata record at hand (an Option)                         *)
(*   rng   the ThresholdRange at hand (an Option)                          *)
(*   out   the last call: its name, its argument and what it returned      *)
(***************************************************************************)
VARIABLES text, pd, rng, pds, out

vars == <<text, pd, rng, pds, out>>

NoCall == [op |-> "none", arg |-> <<>>, res |-> <<>>]

Call(op, arg, res) == [op |-> op, arg |-> arg, res |-> res]

Init ==
    /\ text = <<>>
    /\ pd = None
    /\ rng = None
    /\ pds = PerfdataSet_new
    /\ out = NoCall

(***************************************************************************)
(* Bounds and input domains.                                               *)
(***************************************************************************)
MaxLen == 5

MaxRangeLen == 6

Alphabet == {"a", "'", "=", "1", " ", "\t", ";"}

RangeParts ==
    {<<"@">>, <<"~">>, <<":">>, <<"1", "0">>, <<"2", "0">>, <<"-">>, <<"x">>,
     <<"n", "a", "n">>}

Labels == {<<>>, <<"a">>, <<"'">>, <<"a", " ", "b">>, <<"a", "=">>}

BuildValues == {Dec(TRUE, 15, -1), Num(0), Num(10)}

BuildRanges ==
    {outside(Num(0), Num(10)), inside(Dec(TRUE, 15, -1), Num(10)),
     outside(Num(10), INFINITY)}

Values ==
    {NEG_INFINITY, Num(-5), Dec(TRUE, 0, 0), Num(0), Dec(FALSE, 15, -1), Num(10),
     Num(20), INFINITY, NAN}

(***************************************************************************)
(* Spec: a caller types a text and hands it to the parsers.                *)
(***************************************************************************)
Type(c) ==
    /\ Len(text) < MaxLen
    /\ text' = Append(text, c)
    /\ out' = NoCall
    /\ UNCHANGED <<pd, rng, pds>>

CallTryFrom ==
    /\ out' = Call("try_from", text, try_from(text))
    /\ UNCHANGED <<text, pd, rng, pds>>

CallParseFromList ==
    /\ out' = Call("parse_from_list", text, parse_from_list(text))
    /\ UNCHANGED <<text, pd, rng, pds>>

CallFromStr ==
    /\ out' = Call("from_str", text, from_str(text))
    /\ UNCHANGED <<text, pd, rng, pds>>

\* a caller formats the record try_from returned and parses the text
RoundTripToken ==
    /\ out.op = "try_from"
    /\ out.res.tag = "Ok"
    /\ out' = Call("try_from_of_to_string", <<out.res.val>>,
                   [text |-> Perfdata_fmt(out.res.val),
                    parsed |-> try_from(Perfdata_fmt(out.res.val))])
    /\ UNCHANGED <<text, pd, rng, pds>>

\* parse_from_list pass by pass: out.res holds the remainder and the results
\* pushed so far; a panic of try_from ends the loop
ListEnter ==
    /\ out = NoCall
    /\ out' = Call("list_loop", text, [remainder |-> Trim(text), perfdata |-> <<>>])
    /\ UNCHANGED <<text, pd, rng, pds>>

ListIterate ==
    /\ out.op = "list_loop"
    /\ Find(out.res.remainder, "=") >= 0
    /\ Unwound(out.res.perfdata) # Panic
    /\ out' = Call("list_loop", out.arg,
                   loop_iteration(out.res.remainder, out.res.perfdata))
    /\ UNCHANGED <<text, pd, rng, pds>>

ListReturn ==
    /\ out.op = "list_loop"
    /\ Find(out.res.remainder, "=") < 0 \/ Unwound(out.res.perfdata) = Panic
    /\ out' = Call("parse_from_list", out.arg, Unwound(out.res.perfdata))
    /\ UNCHANGED <<text, pd, rng, pds>>

Next ==
    \/ \E c \in Alphabet : Type(c)
    \/ CallTryFrom
    \/ CallParseFromList
    \/ CallFromStr
    \/ ListEnter
    \/ ListIterate
    \/ ListReturn
    \/ RoundTripToken

Spec == Init /\ [][Next]_vars

(***************************************************************************)
(* SpecRange: ranges are parsed from typed range texts or built by the     *)
(* constructors, then evaluated and formatted.                             *)
(***************************************************************************)
TypeRange(part) ==
    /\ Len(text) + Len(part) <= MaxRangeLen
    /\ rng = None \/ out.op = "from_str"
    /\ text' = text \o part
    /\ rng' = None
    /\ out' = NoCall
    /\ UNCHANGED <<pd, pds>>

ParseRange ==
    /\ out = NoCall
    /\ rng = None
    /\ out' = Call("from_str", text, from_str(text))
    /\ rng' = IF out'.res.tag = "Ok" THEN Some(out'.res.val) ELSE None
    /\ UNCHANGED <<text, pd, pds>>

NewOutside(a, b) ==
    /\ text = <<>>
    /\ rng' = Some(outside(a, b))
    /\ out' = Call("outside", <<a, b>>, outside(a, b))
    /\ UNCHANGED <<text, pd, pds>>

NewInside(a, b) ==
    /\ text = <<>>
    /\ rng' = Some(inside(a, b))
    /\ out' = Call("inside", <<a, b>>, inside(a, b))
    /\ UNCHANGED <<text, pd, pds>>

NewAbovePos(a) ==
    /\ text = <<>>
    /\ rng' = Some(above_pos(a))
    /\ out' = Call("above_pos", <<a>>, above_pos(a))
    /\ UNCHANGED <<text, pd, pds>>

NewBelow(a) ==
    /\ text = <<>>
    /\ rng' = Some(below(a))
    /\ out' = Call("below", <<a>>, below(a))
    /\ UNCHANGED <<text, pd, pds>>

NewAbove(a) ==
    /\ text = <<>>
    /\ rng' = Some(above(a))
    /\ out' = Call("above", <<a>>, above(a))
    /\ UNCHANGED <<text, pd, pds>>

CallIsAlert(v) ==
    /\ IsSome(rng)
    /\ out' = Call("is_alert", <<rng[1], v>>, is_alert(rng[1], v))
    /\ UNCHANGED <<text, pd, rng, pds>>

CallRangeFmt ==
    /\ IsSome(rng)
    /\ out' = Call("range_to_string", <<rng[1]>>, ThresholdRange_fmt(rng[1]))
    /\ UNCHANGED <<text, pd, rng, pds>>

\* a caller formats the range at hand and parses the text
RoundTripRange ==
    /\ IsSome(rng)
    /\ out' = Call("from_str_of_to_string", <<rng[1]>>,
                   from_str(ThresholdRange_fmt(rng[1])))
    /\ UNCHANGED <<text, pd, rng, pds>>

NextRange ==
    \/ \E part \in RangeParts : TypeRange(part)
    \/ ParseRange
    \/ \E a, b \in Values : NewOutside(a, b)
    \/ \E a, b \in Values : NewInside(a, b)
    \/ \E a \in Values : NewAbovePos(a)
    \/ \E a \in Values : NewBelow(a)
    \/ \E a \in Values : NewAbove(a)
    \/ \E v \in Values : CallIsAlert(v)
    \/ CallRangeFmt
    \/ RoundTripRange

SpecRange == Init /\ [][NextRange]_vars

(***************************************************************************)
(* SpecBuild: a record is built by a constructor and the with_X builders,  *)
(* formatted, and the text parsed back.                                    *)
(***************************************************************************)
Construct(tag, lbl, v) ==
    CASE tag = "None" -> unit(lbl, v)
      [] tag = "Percentage" -> percentage(lbl, v)
      [] tag = "Seconds" -> seconds(lbl, v)
      [] tag = "Bytes" -> bytes(lbl, v)
      [] tag = "Counter" -> counter(lbl, v)

NewPerfdata(tag, lbl, v) ==
    /\ pd = None
    /\ pd' = Some(Construct(tag, lbl, v))
    /\ out' = Call("new", <<>>, Construct(tag, lbl, v))
    /\ UNCHANGED <<text, rng, pds>>

NewUndetermined(lbl) ==
    /\ pd = None
    /\ pd' = Some(undetermined(lbl))
    /\ out' = Call("new", <<>>, undetermined(lbl))
    /\ UNCHANGED <<text, rng, pds>>

WithWarn(r) ==
    /\ IsSome(pd)
    /\ pd' = Some(with_warn(pd[1], r))
    /\ text' = <<>>
    /\ out' = NoCall
    /\ UNCHANGED <<rng, pds>>

WithCrit(r) ==
    /\ IsSome(pd)
    /\ pd' = Some(with_crit(pd[1], r))
    /\ text' = <<>>
    /\ out' = NoCall
    /\ UNCHANGED <<rng, pds>>

WithMin(v) ==
    /\ IsSome(pd)
    /\ pd' = Some(with_min(pd[1], v))
    /\ text' = <<>>
    /\ out' = NoCall
    /\ UNCHANGED <<rng, pds>>

WithMax(v) ==
    /\ IsSome(pd)
    /\ pd' = Some(with_max(pd[1], v))
    /\ text' = <<>>
    /\ out' = NoCall
    /\ UNCHANGED <<rng, pds>>

CallToString ==
    /\ IsSome(pd)
    /\ text' = Perfdata_fmt(pd[1])
    /\ out' = Call("to_string", <<>>, Perfdata_fmt(pd[1]))
    /\ UNCHANGED <<pd, rng, pds>>

ParseBack ==
    /\ out.op = "to_string"
    /\ out' = Call("try_from", text, try_from(text))
    /\ UNCHANGED <<text, pd, rng, pds>>

CallIsWarn ==
    /\ IsSome(pd)
    /\ out' = Call("is_warn", <<pd[1]>>, is_warn(pd[1]))
    /\ UNCHANGED <<text, pd, rng, pds>>

CallIsCrit ==
    /\ IsSome(pd)
    /\ out' = Call("is_crit", <<pd[1]>>, is_crit(pd[1]))
    /\ UNCHANGED <<text, pd, rng, pds>>

CallStatus ==
    /\ IsSome(pd)
    /\ out' = Call("status", <<pd[1]>>, Perfdata_status(pd[1]))
    /\ UNCHANGED <<text, pd, rng, pds>>

NextBuild ==
    \/ \E tag \in UnitTags, lbl \in Labels, v \in BuildValues : NewPerfdata(tag, lbl, v)
    \/ \E lbl \in Labels : NewUndetermined(lbl)
    \/ \E r \in BuildRanges : WithWarn(r)
    \/ \E r \in BuildRanges : WithCrit(r)
    \/ \E v \in BuildValues : WithMin(v)
    \/ \E v \in BuildValues : WithMax(v)
    \/ CallToString
    \/ ParseBack
    \/ CallIsWarn
    \/ CallIsCrit
    \/ CallStatus

SpecBuild == Init /\ [][NextBuild]_vars

(***************************************************************************)
(* SpecSet: records are added to a set, or the set is made from a vector   *)
(* or an iterator, and the set is queried and formatted.                   *)
(***************************************************************************)
MaxSet == 3

SetRecords ==
    {unit(<<"o", "k">>, Num(10)),
     with_warn(unit(<<"w">>, Num(10)), above_pos(Num(0))),
     with_max(with_crit(seconds(<<"a", " ", "b">>, Dec(TRUE, 15, -1)), above_pos(Num(0))),
              Num(10)),
     with_crit(with_warn(unit(<<"w">>, Num(10)), above_pos(Num(0))), inside(Num(0), Num(10))),
     with_crit(undetermined(<<"u">>), above_pos(Num(0))),
     with_crit(with_warn(undetermined(<<"u">>), inside(Num(0), Num(10))),
               inside(Num(0), Num(10))),
     unit(<<"i">>, INFINITY)}

Vecs == UNION {[1..n -> SetRecords] : n \in 0..MaxSet}

Add(p) ==
    /\ Len(pds.data) < MaxSet
    /\ pds' = add(pds, p)
    /\ out' = Call("add", <<p>>, <<>>)
    /\ UNCHANGED <<text, pd, rng>>

FromVec(vec) ==
    /\ pds = PerfdataSet_new
    /\ pds' = PerfdataSet_from(vec)
    /\ out' = Call("from", <<vec>>, PerfdataSet_from(vec))
    /\ UNCHANGED <<text, pd, rng>>

FromIter(iter) ==
    /\ pds = PerfdataSet_new
    /\ pds' = from_iter(iter)
    /\ out' = Call("from_iter", <<iter>>, from_iter(iter))
    /\ UNCHANGED <<text, pd, rng>>

CallIsEmpty ==
    /\ out' = Call("is_empty", <<pds>>, is_empty(pds))
    /\ UNCHANGED <<text, pd, rng, pds>>

CallData ==
    /\ out' = Call("data", <<pds>>, data(pds))
    /\ UNCHANGED <<text, pd, rng, pds>>

CallCritical ==
    /\ out' = Call("critical", <<pds>>, critical(pds))
    /\ UNCHANGED <<text, pd, rng, pds>>

CallHasCritical ==
    /\ out' = Call("has_critical", <<pds>>, has_critical(pds))
    /\ UNCHANGED <<text, pd, rng, pds>>

CallWarning ==
    /\ out' = Call("warning", <<pds>>, warning(pds))
    /\ UNCHANGED <<text, pd, rng, pds>>

CallHasWarning ==
    /\ out' = Call("has_warning", <<pds>>, has_warning(pds))
    /\ UNCHANGED <<text, pd, rng, pds>>

CallSetStatus ==
    /\ out' = Call("set_status", <<pds>>, PerfdataSet_status(pds))
    /\ UNCHANGED <<text, pd, rng, pds>>

CallSetToString ==
    /\ out' = Call("set_to_string", <<pds>>, PerfdataSet_fmt(pds))
    /\ UNCHANGED <<text, pd, rng, pds>>

\* a caller formats the set and hands the text to the list parser
CallParseSetText ==
    /\ out' = Call("parse_from_list_of_to_string", <<pds>>,
                   parse_from_list(PerfdataSet_fmt(pds)))
    /\ UNCHANGED <<text, pd, rng, pds>>

NextSet ==
    \/ \E p \in SetRecords : Add(p)
    \/ \E vec \in Vecs : FromVec(vec)
    \/ \E iter \in Vecs : FromIter(iter)
    \/ CallIsEmpty
    \/ CallData
    \/ CallCritical
    \/ CallHasCritical
    \/ CallWarning
    \/ CallHasWarning
    \/ CallSetStatus
    \/ CallSetToString
    \/ CallParseSetText

SpecSet == Init /\ [][NextSet]_vars

(***************************************************************************)
(* SpecToken: a caller writes a token piece by piece, the label, the value *)
(* segment, delimiters and datapoints, and hands it to try_from.           *)
(***************************************************************************)
MaxDelims == 5

ValueTexts ==
    {<<"1", "0">>, <<"U">>, <<"u">>, <<"1", "0", "s">>, <<"1", "0", "b">>,
     <<"1", "0", "c">>, <<"1", "0", "%">>, <<"1", "0", "x">>, <<"1", "0", " ", "s">>,
     <<"1", "0", "B">>, <<"-", ".", "5", "s">>, <<"1", "-", "0">>, <<"x">>, <<"U", "s">>}

DatapointTexts == {<<"3", "0">>, <<"x">>}

Delimiters(t) == Len(SelectSeq(t, LAMBDA c : c = DATA_DELIMITER))

StartToken ==
    /\ text = <<>>
    /\ text' = <<"l", LABEL_DELIMITER>>
    /\ out' = NoCall
    /\ UNCHANGED <<pd, rng, pds>>

TypeValue(v) ==
    /\ text = <<"l", LABEL_DELIMITER>>
    /\ text' = text \o v
    /\ out' = NoCall
    /\ UNCHANGED <<pd, rng, pds>>

TypeDelimiter ==
    /\ text # <<>>
    /\ Delimiters(text) < MaxDelims
    /\ text' = Append(text, DATA_DELIMITER)
    /\ out' = NoCall
    /\ UNCHANGED <<pd, rng, pds>>

TypeDatapoint(d) ==
    /\ EndsWith(text, DATA_DELIMITER)
    /\ text' = text \o d
    /\ out' = NoCall
    /\ UNCHANGED <<pd, rng, pds>>

NextToken ==
    \/ StartToken
    \/ \E v \in ValueTexts : TypeValue(v)
    \/ TypeDelimiter
    \/ \E d \in DatapointTexts : TypeDatapoint(d)
    \/ CallTryFrom
    \/ RoundTripToken

SpecToken == Init /\ [][NextToken]_vars

(***************************************************************************)
(* Claims.                                                                 *)
(***************************************************************************)

\* C1: try_from, from_str and parse_from_list return normally on every
\* input, with a record or one of the PerfdataParseError variants; none of
\* them panics, the token '=1 included.
C1_NeverPanics ==
    out.op \in {"try_from", "from_str", "parse_from_list"} =>
        /\ out.res.tag # "Panic"
        /\ out.res.tag = "Err" => out.res.e \in PerfdataParseError

\* no number of the record is NaN or, for the value, infinite
NotNaNRange(o) == IsSome(o) => ~IsNaN(o[1].start) /\ ~IsNaN(o[1].end)

FiniteOpt(o) == IsSome(o) => o[1].k = "fin"

FiniteRecord(p) ==
    /\ FiniteOpt(p.unit.v)
    /\ NotNaNRange(p.warn)
    /\ NotNaNRange(p.crit)
    /\ FiniteOpt(p.min)
    /\ FiniteOpt(p.max)

\* C2: a record built by a constructor with any label and any finite value,
\* then by any with_X builders, is returned unchanged by
\* try_from(record.to_string()).
C2_RoundTrip ==
    (IsSome(pd) /\ out.op = "try_from" /\ FiniteRecord(pd[1])) =>
        /\ out.res.tag = "Ok"
        /\ PerfdataEq(out.res.val, pd[1])

CountOf(s, c) == Cardinality({i \in 1..Len(s) : s[i] = c})

RECURSIVE StripSpaces(_)
StripSpaces(s) == IF s # <<>> /\ s[1] = " " THEN StripSpaces(Tail(s)) ELSE s

\* the pieces of a text cut at the first space after each `=`, the
\* separating spaces left out
RECURSIVE SpaceTokens(_)
SpaceTokens(s) ==
    LET t == StripSpaces(s)
        eq == Find(t, "=")
        sp == Find(Drop(t, eq), " ")
    IN IF t = <<>> THEN <<>>
       ELSE IF eq < 0 \/ sp < 0 THEN <<t>>
       ELSE <<Take(t, eq + sp)>> \o SpaceTokens(Drop(t, eq + sp))

\* the text is tokens separated by one or more spaces, each token with
\* exactly one `=` and no space after it
IsTokenList(s) ==
    /\ s # <<>> => s[1] # " " /\ s[Len(s)] # " "
    /\ \A i \in 1..Len(SpaceTokens(s)) : CountOf(SpaceTokens(s)[i], "=") = 1

\* C3: on n tokens separated by spaces parse_from_list returns exactly n
\* results in input order, the i-th the result of try_from on the i-th
\* token, a failing token contributing its own Err.
C3_ListIsPerToken ==
    (out.op = "parse_from_list" /\ IsTokenList(out.arg)) =>
        /\ out.res.tag = "Vec"
        /\ out.res.val = [i \in 1..Len(SpaceTokens(out.arg)) |->
                              try_from(SpaceTokens(out.arg)[i])]

\* what is left of the input once no further `=` is found
RECURSIVE Leftover(_)
Leftover(s) ==
    LET eq == Find(s, "=")
        sp == Find(Drop(s, eq), " ")
    IN IF eq < 0 THEN s
       ELSE IF sp < 0 THEN <<>>
       ELSE Leftover(Drop(s, eq + sp))

\* C4: when no further `=` is found and the trimmed remainder is not empty,
\* the remainder is the final token: the result of try_from on it is the
\* last result of parse_from_list.
C4_RemainderIsFinalToken ==
    (out.op = "parse_from_list" /\ Trim(Leftover(Trim(out.arg))) # <<>>) =>
        /\ out.res.tag = "Vec"
        /\ Len(out.res.val) > 0
        /\ out.res.val[Len(out.res.val)] = try_from(Leftover(Trim(out.arg)))

StripMarker(s) == IF StartsWith(s, "@") THEN Tail(s) ELSE s

\* C5: from_str returns Err(ThresholdEmpty) exactly when the input without
\* its optional leading `@` is empty, that is for `` and for `@`.
C5_EmptyAfterMarker ==
    out.op = "from_str" =>
        ((out.res = Err("ThresholdEmpty")) <=> (StripMarker(out.arg) = <<>>))

LabelOk(l) == l # <<>> /\ ~Contains(l, "'")

\* C6: every record, parsed or built by the constructors and builders, has
\* a label that is not empty and holds no single quote.
C6_LabelInvariant ==
    /\ IsSome(pd) => LabelOk(pd[1].label)
    /\ (out.op = "try_from" /\ out.res.tag = "Ok") => LabelOk(out.res.val.label)

\* C7: every range produced by the constructors or by from_str has
\* start <= end; bounds given in the wrong order are swapped, so
\* outside(a,b) = outside(b,a) and inside(a,b) = inside(b,a) for a > b, with
\* the same is_alert on every value.
C7_StartLeEnd ==
    /\ IsSome(rng) => ValLe(rng[1].start, rng[1].end)
    /\ \A a, b \in Values :
        (out.op \in {"outside", "inside"} /\ out.arg = <<a, b>> /\ ValLt(b, a)) =>
            /\ RangeEq(out.res, [alert_inside |-> out.op = "inside",
                                 start |-> b, end |-> a])
            /\ \A v \in Values :
                   is_alert(out.res, v)
                   = is_alert([alert_inside |-> out.op = "inside",
                               start |-> b, end |-> a], v)

\* C8: for bounds a <= b, inside(a,b).is_alert(v) is true exactly when
\* a <= v <= b and outside(a,b).is_alert(v) is its negation; at v = a and
\* v = b the inside range alerts and the outside range does not.
C8_AlertIsClosedInterval ==
    out.op = "is_alert" =>
        \A a, b \in Values :
            ValLe(a, b) =>
                LET v == out.arg[2]
                    within == ValLe(a, v) /\ ValLe(v, b)
                IN /\ out.arg[1] = inside(a, b) => out.res = within
                   /\ out.arg[1] = outside(a, b) => out.res = ~within

C8_Witness ==
    /\ out.op = "is_alert"
    /\ out.arg = <<inside(Num(10), Num(20)), Num(20)>>
    /\ out.res = TRUE

\* the START and END texts of a range text, as the grammar reads them
StartText(s) ==
    LET r == StripMarker(s) IN IF Find(r, ":") < 0 THEN <<>> ELSE Take(r, Find(r, ":"))

EndText(s) ==
    LET r == StripMarker(s) IN IF Find(r, ":") < 0 THEN r ELSE Drop(r, Find(r, ":") + 1)

HasColon(s) == Find(StripMarker(s), ":") >= 0

\* C9: on a non-empty range text a leading `@` decides alert_inside; with
\* no colon the text is END and START is 0; with a colon the left text is
\* START (empty is 0, `~` is -infinity) and the right text is END (empty is
\* +infinity); any other text that is not a number is a value-parse error.
\* `10` = above_pos(10), `10:` = outside(10, +inf), `~:10` = above(10),
\* `10:20` = outside(10, 20), `@10:20` = inside(10, 20).
C9_RangeGrammar ==
    (out.op = "from_str" /\ StripMarker(out.arg) # <<>> /\ EndText(out.arg) # <<"~">>) =>
        LET st == StartText(out.arg)
            en == EndText(out.arg)
            stOk == st = <<>> \/ st = <<"~">> \/ parse_float(st).ok
            enOk == (en = <<>> /\ HasColon(out.arg)) \/ parse_float(en).ok
            START == IF st = <<>> THEN Num(0)
                     ELSE IF st = <<"~">> THEN NEG_INFINITY
                     ELSE parse_float(st).v
            END == IF en = <<>> THEN INFINITY ELSE parse_float(en).v
        IN /\ (~stOk \/ ~enOk) =>
                  out.res.tag = "Err" /\ out.res.e = "ParseValueError"
           /\ (stOk /\ enOk) =>
                  out.res = Ok(IF StartsWith(out.arg, "@") THEN inside(START, END)
                               ELSE outside(START, END))
           /\ out.arg = <<"1", "0">> => out.res = Ok(above_pos(Num(10)))
           /\ out.arg = <<"1", "0", ":">> => out.res = Ok(outside(Num(10), INFINITY))
           /\ out.arg = <<"~", ":", "1", "0">> => out.res = Ok(above(Num(10)))
           /\ out.arg = <<"1", "0", ":", "2", "0">> =>
                  out.res = Ok(outside(Num(10), Num(20)))
           /\ out.arg = <<"@", "1", "0", ":", "2", "0">> =>
                  out.res = Ok(inside(Num(10), Num(20)))

C9_Witness ==
    /\ out.op = "from_str"
    /\ out.arg = <<"@", "1", "0", ":", "2", "0">>
    /\ out.res = Ok([alert_inside |-> TRUE, start |-> Num(10), end |-> Num(20)])

\* the text the canonical format prescribes for a range
CanonicalRange(r) ==
    (IF r.alert_inside THEN <<"@">> ELSE <<>>)
    \o (CASE ValEq(r.start, NEG_INFINITY) /\ ValEq(r.end, INFINITY) -> <<"~", ":">>
          [] ~ValEq(r.start, NEG_INFINITY) /\ ValEq(r.start, Num(0))
             /\ ValEq(r.end, INFINITY) -> <<"0", ":">>
          [] ValEq(r.start, Num(0)) /\ ~ValEq(r.end, INFINITY) -> FmtValue(r.end)
          [] ValEq(r.start, NEG_INFINITY) /\ ~ValEq(r.end, INFINITY) ->
                 <<"~", ":">> \o FmtValue(r.end)
          [] OTHER -> FmtValue(r.start) \o <<":">> \o FmtValue(r.end))

\* C10: formatting a range emits `@` exactly when alert_inside, then the
\* first matching case of: `~:` for (-inf, +inf), `0:` for (0, +inf), bare
\* END for start 0, `~:END` for start -inf, `START:END` otherwise.
C10_CanonicalFormat ==
    out.op = "range_to_string" => out.res = CanonicalRange(out.arg[1])

C10_Witness ==
    /\ out.op = "range_to_string"
    /\ out.arg[1] = [alert_inside |-> TRUE, start |-> Num(0), end |-> INFINITY]
    /\ out.res = <<"@", "0", ":">>

\* C11: for every range r of either polarity whose bounds, finite or
\* infinite, satisfy start <= end, from_str(r.to_string()) returns Ok(r).
C11_RangeRoundTrip ==
    (out.op = "from_str_of_to_string" /\ ValLe(out.arg[1].start, out.arg[1].end)) =>
        /\ out.res.tag = "Ok"
        /\ RangeEq(out.res.val, out.arg[1])

C11_Witness ==
    /\ out.op = "from_str_of_to_string"
    /\ out.arg[1] = [alert_inside |-> TRUE, start |-> NEG_INFINITY, end |-> Num(20)]
    /\ out.res = Ok(out.arg[1])

\* the unit suffix the format prescribes for each variant
UnitSuffix(tag) ==
    CASE tag = "None" -> <<>>
      [] tag = "Percentage" -> <<"%">>
      [] tag = "Seconds" -> <<"s">>
      [] tag = "Bytes" -> <<"b">>
      [] tag = "Counter" -> <<"c">>

\* `'LABEL'=VALUE[UNIT];` with U for Undetermined
CanonicalHead(p) ==
    <<"'">> \o p.label \o <<"'", "=">>
    \o (IF p.unit.tag = "Undetermined" THEN <<"U">>
        ELSE FmtValue(p.unit.v[1]) \o UnitSuffix(p.unit.tag))
    \o <<";">>

RangeSegment(o) == (IF IsSome(o) THEN CanonicalRange(o[1]) ELSE <<>>) \o <<";">>

ValueSegment(o) == (IF IsSome(o) THEN FmtValue(o[1]) ELSE <<>>) \o <<";">>

AnySet(p) == p.warn # None \/ p.crit # None \/ p.min # None \/ p.max # None

\* C12: formatting a record emits `'LABEL'=VALUE[UNIT];` and then the four
\* segments WARN;CRIT;MIN;MAX; (an unset field an empty segment) if and only
\* if at least one of warn, crit, min, max is set; otherwise nothing follows
\* the first `;`.
C12_PerfdataFormat ==
    (out.op = "to_string" /\ IsSome(pd)) =>
        /\ AnySet(pd[1]) =>
               out.res = CanonicalHead(pd[1])
                         \o RangeSegment(pd[1].warn) \o RangeSegment(pd[1].crit)
                         \o ValueSegment(pd[1].min) \o ValueSegment(pd[1].max)
        /\ ~AnySet(pd[1]) => out.res = CanonicalHead(pd[1])

C12_Witness ==
    /\ out.op = "to_string"
    /\ IsSome(pd)
    /\ pd[1].warn = None /\ pd[1].crit = None /\ pd[1].min = None
    /\ out.res = <<"'", "a", "'", "=", "0", "s", ";", ";", ";", ";", "1", "0", ";">>

\* C13: is_warn (is_crit) is true exactly when the record is not
\* Undetermined, a warn (crit) range is set and that range's is_alert(value)
\* is true; an Undetermined record and a record without the range are never
\* in that state.
C13_WarnCritDelegate ==
    /\ out.op = "is_warn" =>
           out.res = (/\ out.arg[1].unit.tag # "Undetermined"
                      /\ IsSome(out.arg[1].warn)
                      /\ is_alert(out.arg[1].warn[1], out.arg[1].unit.v[1]))
    /\ out.op = "is_crit" =>
           out.res = (/\ out.arg[1].unit.tag # "Undetermined"
                      /\ IsSome(out.arg[1].crit)
                      /\ is_alert(out.arg[1].crit[1], out.arg[1].unit.v[1]))

C13_Witness ==
    /\ out.op = "is_warn"
    /\ out.arg[1].unit.tag = "Undetermined"
    /\ out.arg[1].warn = Some(outside(Num(10), INFINITY))
    /\ out.res = FALSE

\* C14: status() is Critical whenever is_crit() holds, whether or not
\* is_warn() holds; Warning exactly when is_warn() holds and is_crit() does
\* not; OK otherwise.
C14_StatusWorstOf ==
    out.op = "status" =>
        /\ is_crit(out.arg[1]) => out.res = "Critical"
        /\ (out.res = "Warning") <=> (is_warn(out.arg[1]) /\ ~is_crit(out.arg[1]))
        /\ (~is_crit(out.arg[1]) /\ ~is_warn(out.arg[1])) => out.res = "OK"

C14_Witness ==
    /\ out.op = "status"
    /\ is_crit(out.arg[1])
    /\ is_warn(out.arg[1])
    /\ out.res = "Critical"

\* the maximum of a set of statuses under OK < Warning < Critical, OK for
\* the empty set
MaxStatus(S) ==
    IF "Critical" \in S THEN "Critical"
    ELSE IF "Warning" \in S THEN "Warning"
    ELSE "OK"

\* C15: after any sequence of adds, or construction from a vector or an
\* iterator, the status of the set is the maximum under
\* OK < Warning < Critical of status() over its records, OK when empty.
C15_SetStatusIsMax ==
    out.op = "set_status" =>
        out.res = MaxStatus({Perfdata_status(out.arg[1].data[i]) :
                                 i \in 1..Len(out.arg[1].data)})

C15_Witness ==
    /\ out.op = "set_status"
    /\ Len(out.arg[1].data) = 3
    /\ Perfdata_status(out.arg[1].data[1]) = "Warning"
    /\ Perfdata_status(out.arg[1].data[2]) = "Critical"
    /\ Perfdata_status(out.arg[1].data[3]) = "OK"
    /\ out.res = "Critical"

\* one step of a caller of the set, seen from the records it holds
C16_Step ==
    /\ out'.op = "add" => pds'.data = Append(pds.data, out'.arg[1])
    /\ out'.op \in {"from", "from_iter"} => pds'.data = out'.arg[1]
    /\ out'.op \notin {"add", "from", "from_iter"} => pds'.data = pds.data
    /\ out'.op = "data" => out'.res = pds.data
    /\ out'.op = "is_empty" => (out'.res <=> pds.data = <<>>)

\* C16: the set starts empty; each add appends its record at the end and
\* leaves the stored records unchanged, records of equal labels included;
\* no query changes the records; data() yields the records in that order
\* and is_empty() is true if and only if there is none.
C16_InsertionOrder == pds.data = <<>> /\ [][C16_Step]_vars

C16_Witness ==
    /\ out.op = "add"
    /\ Len(pds.data) = 2
    /\ pds.data[1].label = pds.data[2].label
    /\ pds.data[1] # pds.data[2]
    /\ pds.data[2] = out.arg[1]

\* the records of a sequence that are critical, in order
RECURSIVE CriticalOf(_)
CriticalOf(d) ==
    IF d = <<>> THEN <<>>
    ELSE (IF is_crit(d[1]) THEN <<d[1]>> ELSE <<>>) \o CriticalOf(Tail(d))

\* the records of a sequence that are warning, in order
RECURSIVE WarningOf(_)
WarningOf(d) ==
    IF d = <<>> THEN <<>>
    ELSE (IF is_warn(d[1]) THEN <<d[1]>> ELSE <<>>) \o WarningOf(Tail(d))

\* C17: critical() yields exactly the records with is_crit() and warning()
\* those with is_warn(), in insertion order, a record that is both in both
\* views; has_critical() / has_warning() is true if and only if the view is
\* not empty.
C17_FilteredViews ==
    /\ out.op = "critical" => out.res = CriticalOf(out.arg[1].data)
    /\ out.op = "warning" => out.res = WarningOf(out.arg[1].data)
    /\ out.op = "has_critical" =>
           (out.res <=> \E i \in 1..Len(out.arg[1].data) : is_crit(out.arg[1].data[i]))
    /\ out.op = "has_warning" =>
           (out.res <=> \E i \in 1..Len(out.arg[1].data) : is_warn(out.arg[1].data[i]))

C17_Witness ==
    /\ out.op = "warning"
    /\ Len(out.arg[1].data) = 3
    /\ Len(out.res) = 2
    /\ is_crit(out.res[1])
    /\ ~is_crit(out.res[2])

\* the canonical formats of the records joined by one space
RECURSIVE Joined(_)
Joined(d) ==
    IF d = <<>> THEN <<>>
    ELSE IF Len(d) = 1 THEN Perfdata_fmt(d[1])
    ELSE Perfdata_fmt(d[1]) \o <<" ">> \o Joined(Tail(d))

\* C18: formatting a set of n records yields their canonical formats in
\* insertion order separated by exactly one space, none leading or
\* trailing, and the empty text when n = 0.
C18_SetFormat ==
    out.op = "set_to_string" =>
        /\ out.res = Joined(out.arg[1].data)
        /\ out.arg[1].data = <<>> => out.res = <<>>

C18_Witness ==
    /\ out.op = "set_to_string"
    /\ Len(out.arg[1].data) = 2
    /\ out.res = <<"'", "o", "k", "'", "=", "1", "0", ";", " ",
                   "'", "u", "'", "=", "U", ";", ";", "0", ";", ";", ";">>

\* the pieces of the data region of a token and its i-th segment, a
\* missing segment read as the empty one
Pieces(t) == Split(Drop(t, Find(t, "=") + 1), ";")

Segment(t, i) == IF i <= Len(Pieces(t)) THEN Pieces(t)[i] ELSE <<>>

\* the segment is empty or the text of a range (of a number)
RangeSegmentOk(t, i) == Segment(t, i) = <<>> \/ from_str(Segment(t, i)).tag = "Ok"

NumberSegmentOk(t, i) == Segment(t, i) = <<>> \/ parse_float(Segment(t, i)).ok

LaterSegmentsOk(t) ==
    /\ RangeSegmentOk(t, 2) /\ RangeSegmentOk(t, 3)
    /\ NumberSegmentOk(t, 4) /\ NumberSegmentOk(t, 5)

\* the field a range (number) segment leaves in the record
RangeField(t, i) ==
    IF Segment(t, i) = <<>> THEN None ELSE Some(from_str(Segment(t, i)).val)

NumberField(t, i) ==
    IF Segment(t, i) = <<>> THEN None ELSE Some(parse_float(Segment(t, i)).v)

\* C19: the data region is split on `;` positionally into value, warn,
\* crit, min, max; a missing segment and an empty one both leave the field
\* unset (`l=10`, `l=10;` and `l=10;;;;` parse to the same record, `l=10;;30`
\* sets only crit), except the value segment, whose absence or emptiness
\* yields MissingValue even when later segments are filled.
C19_PositionalSegments ==
    (out.op = "try_from" /\ StartsWith(out.arg, "l")) =>
        /\ Segment(out.arg, 1) = <<>> => out.res = Err("MissingValue")
        /\ out.res.tag = "Ok" =>
               /\ LaterSegmentsOk(out.arg)
               /\ out.res.val.warn = RangeField(out.arg, 2)
               /\ out.res.val.crit = RangeField(out.arg, 3)
               /\ out.res.val.min = NumberField(out.arg, 4)
               /\ out.res.val.max = NumberField(out.arg, 5)
        /\ out.arg \in {<<"l", "=", "1", "0">>, <<"l", "=", "1", "0", ";">>,
                        <<"l", "=", "1", "0", ";", ";", ";", ";">>} =>
               out.res = Ok(unit(<<"l">>, Num(10)))
        /\ out.arg = <<"l", "=", "1", "0", ";", ";", "3", "0">> =>
               out.res = Ok(with_crit(unit(<<"l">>, Num(10)), above_pos(Num(30))))
        /\ out.arg = <<"l", "=", ";", "3", "0", ";", "3", "0", ";">> =>
               out.res = Err("MissingValue")

C19_Witness ==
    /\ out.op = "try_from"
    /\ out.arg = <<"l", "=", "1", "0", ";", ";", "3", "0">>
    /\ out.res.tag = "Ok"
    /\ out.res.val.warn = None
    /\ out.res.val.crit = Some(outside(Num(0), Num(30)))

\* the characters of a numeric text: the digits, `.` and `-`
NumericChars == {"0", "1", "2", "3", "4", "5", "6", "7", "8", "9", ".", "-"}

\* the number of leading characters that are numeric
NumericLen(v) ==
    IF \A i \in 1..Len(v) : v[i] \in NumericChars THEN Len(v)
    ELSE (CHOOSE i \in 1..Len(v) :
              /\ v[i] \notin NumericChars
              /\ \A j \in 1..(i - 1) : v[j] \in NumericChars) - 1

NumericText(v) == Take(v, NumericLen(v))

UnitText(v) == Drop(v, NumericLen(v))

KnownUnits == {<<>>, <<"s">>, <<"b">>, <<"c">>, <<"%">>}

UnitTagOf(u) ==
    CASE u = <<>> -> "None"
      [] u = <<"s">> -> "Seconds"
      [] u = <<"b">> -> "Bytes"
      [] u = <<"c">> -> "Counter"
      [] u = <<"%">> -> "Percentage"

\* C20: a value segment equal to `U` or `u` yields Undetermined with no
\* unit parsing, the later segments still parsed and stored; any other value
\* segment is split at the first character that is not a digit, `.` or `-`
\* into numeric text and unit text; once the numeric text has parsed, the
\* unit texts empty, `s`, `b`, `c`, `%` yield None, Seconds, Bytes, Counter,
\* Percentage carrying the number, and every other unit text yields
\* UnknownUnit carrying exactly that text.
C20_ValueAndUnit ==
    (out.op = "try_from" /\ StartsWith(out.arg, "l") /\ Segment(out.arg, 1) # <<>>) =>
        LET v == Segment(out.arg, 1)
            f == parse_float(NumericText(v))
        IN /\ v \in {<<"U">>, <<"u">>} =>
                  /\ LaterSegmentsOk(out.arg) <=> out.res.tag = "Ok"
                  /\ out.res.tag = "Ok" =>
                         /\ out.res.val.unit = [tag |-> "Undetermined", v |-> None]
                         /\ out.res.val.warn = RangeField(out.arg, 2)
                         /\ out.res.val.crit = RangeField(out.arg, 3)
                         /\ out.res.val.min = NumberField(out.arg, 4)
                         /\ out.res.val.max = NumberField(out.arg, 5)
           /\ (v \notin {<<"U">>, <<"u">>} /\ f.ok /\ UnitText(v) \in KnownUnits) =>
                  /\ LaterSegmentsOk(out.arg) <=> out.res.tag = "Ok"
                  /\ out.res.tag = "Ok" =>
                         out.res.val.unit = [tag |-> UnitTagOf(UnitText(v)), v |-> Some(f.v)]
           /\ (v \notin {<<"U">>, <<"u">>} /\ f.ok /\ UnitText(v) \notin KnownUnits) =>
                  out.res = [tag |-> "Err", e |-> "UnknownUnit", info |-> UnitText(v)]

C20_Witness ==
    /\ out.op = "try_from"
    /\ out.arg = <<"l", "=", "U", ";", "3", "0", ";", "3", "0">>
    /\ out.res = Ok(with_crit(with_warn(undetermined(<<"l">>), above_pos(Num(30))),
                              above_pos(Num(30))))

\* the label text of a token as the grammar reads it: the text before the
\* first `=`, trimmed, one enclosing pair of quotes removed
LabelText(t) == Trim(Take(t, Find(t, "=")))

Unquote(l) ==
    IF Len(l) >= 2 /\ l[1] = "'" /\ l[Len(l)] = "'" THEN SubSeq(l, 2, Len(l) - 1) ELSE l

LabelErrors == {"MissingEqualsSign", "LabelContainsSingleQuote", "MissingLabel"}

\* C21: the label is the text before the first `=`, trimmed, with one
\* enclosing pair of quotes removed; a quote that remains gives
\* LabelContainsSingleQuote, else an empty label gives MissingLabel, else the
\* label is kept with its interior spaces; no `=` gives MissingEqualsSign.
C21_LabelRules ==
    out.op = "try_from" =>
        /\ Find(out.arg, "=") < 0 => out.res = Err("MissingEqualsSign")
        /\ (Find(out.arg, "=") >= 0 /\ Contains(Unquote(LabelText(out.arg)), "'")) =>
               out.res = Err("LabelContainsSingleQuote")
        /\ (Find(out.arg, "=") >= 0 /\ Unquote(LabelText(out.arg)) = <<>>) =>
               out.res = Err("MissingLabel")
        /\ (Find(out.arg, "=") >= 0 /\ Unquote(LabelText(out.arg)) # <<>>
            /\ ~Contains(Unquote(LabelText(out.arg)), "'")) =>
               /\ out.res.tag \in {"Ok", "Err"}
               /\ out.res.tag = "Err" => out.res.e \notin LabelErrors
               /\ out.res.tag = "Ok" => out.res.val.label = Unquote(LabelText(out.arg))

PerfdataFields == {"label", "unit", "warn", "crit", "min", "max"}

\* q is p with the field f set to Some(x) and every other field as in p
SetsOnly(q, p, f, x) ==
    /\ DOMAIN q = PerfdataFields
    /\ q[f] = Some(x)
    /\ \A g \in PerfdataFields \ {f} : q[g] = p[g]

\* the builders applied to the record p with every range and value
BuildersFrame(p) ==
    /\ \A r \in BuildRanges :
           /\ SetsOnly(with_warn(p, r), p, "warn", r)
           /\ SetsOnly(with_crit(p, r), p, "crit", r)
    /\ \A v \in BuildValues :
           /\ SetsOnly(with_min(p, v), p, "min", v)
           /\ SetsOnly(with_max(p, v), p, "max", v)

BuildersCommute(p) ==
    /\ \A r, q \in BuildRanges :
           with_crit(with_warn(p, r), q) = with_warn(with_crit(p, q), r)
    /\ \A v, w \in BuildValues :
           with_max(with_min(p, v), w) = with_min(with_max(p, w), v)
    /\ \A r \in BuildRanges, v \in BuildValues :
           /\ with_min(with_warn(p, r), v) = with_warn(with_min(p, v), r)
           /\ with_max(with_warn(p, r), v) = with_warn(with_max(p, v), r)
           /\ with_min(with_crit(p, r), v) = with_crit(with_min(p, v), r)
           /\ with_max(with_crit(p, r), v) = with_crit(with_max(p, v), r)

\* a step that changes the record at hand changes one optional field and
\* sets it
C22_Step ==
    (IsSome(pd) /\ IsSome(pd') /\ pd' # pd) =>
        \E f \in {"warn", "crit", "min", "max"} :
            /\ IsSome(pd'[1][f])
            /\ \A g \in PerfdataFields \ {f} : pd'[1][g] = pd[1][g]

\* C22: each of with_warn, with_crit, with_min, with_max returns a record
\* that differs from its input only in the named field, set to the given
\* value whatever was set before; label, unit and the other fields are
\* unchanged; builders of different fields give the same record in either
\* order.
C22_BuildersFrame ==
    /\ [](IsSome(pd) => BuildersFrame(pd[1]) /\ BuildersCommute(pd[1]))
    /\ [][C22_Step]_vars

C22_Witness ==
    /\ IsSome(pd)
    /\ out = NoCall
    /\ pd[1].warn = Some(outside(Num(10), INFINITY))
    /\ pd[1].crit = Some(outside(Num(0), Num(10)))
    /\ pd[1].min = Some(Num(0))
    /\ pd[1].max = Some(Num(10))

\* the pass the loop makes from a remainder that holds a `=`
NextPass(l) == loop_iteration(l.remainder, l.perfdata)

\* the pass cuts off a prefix that holds the found `=`, or empties the
\* remainder
CutsPrefix(l) ==
    \/ NextPass(l).remainder = <<>>
    \/ \E k \in 1..Len(l.remainder) :
           /\ NextPass(l).remainder = Drop(l.remainder, k)
           /\ Contains(Take(l.remainder, k), "=")

\* C23: parse_from_list terminates: every pass of the loop cuts a non-empty
\* prefix holding the found `=` off the remainder or empties it, so the
\* remainder strictly shrinks and at most one result is pushed per `=` of the
\* input; an empty or whitespace-only input gives no results.
C23_LoopShrinks ==
    /\ (out.op = "list_loop" /\ Find(out.res.remainder, "=") >= 0) =>
           /\ CutsPrefix(out.res)
           /\ Len(NextPass(out.res).remainder) < Len(out.res.remainder)
           /\ Len(NextPass(out.res).perfdata) <= Len(out.res.perfdata) + 1
    /\ out.op = "list_loop" =>
           Len(out.res.perfdata) + CountOf(out.res.remainder, "=")
               <= CountOf(out.arg, "=")
    /\ out.op = "parse_from_list" =>
           /\ out.res = parse_from_list(out.arg)
           /\ out.res.tag = "Vec" => Len(out.res.val) <= CountOf(out.arg, "=")
           /\ Trim(out.arg) = <<>> => out.res = [tag |-> "Vec", val |-> <<>>]

C23_Witness ==
    /\ out.op = "list_loop"
    /\ Len(out.res.perfdata) = 1
    /\ Find(out.res.remainder, "=") >= 0
    /\ Len(NextPass(out.res).perfdata) = 2

NoError == [tag |-> "None"]

\* the error of a number segment, NoError when it is empty or parses
NumberError(seg) ==
    IF seg = <<>> \/ parse_float(seg).ok THEN NoError
    ELSE ParseValueError(parse_float(seg).kind)

\* the error of a range segment, NoError when it is empty or parses
RangeError(seg) ==
    IF seg = <<>> \/ from_str(seg).tag = "Ok" THEN NoError ELSE from_str(seg)

\* the error of the value segment
ValueError(v) ==
    IF v = <<>> THEN Err("MissingValue")
    ELSE IF v \in {<<"U">>, <<"u">>} THEN NoError
    ELSE IF ~parse_float(NumericText(v)).ok
         THEN ParseValueError(parse_float(NumericText(v)).kind)
    ELSE IF UnitText(v) \notin KnownUnits THEN UnknownUnit(UnitText(v))
    ELSE NoError

\* the error of the label
LabelError(t) ==
    IF Find(t, "=") < 0 THEN Err("MissingEqualsSign")
    ELSE IF Contains(Unquote(LabelText(t)), "'") THEN Err("LabelContainsSingleQuote")
    ELSE IF Unquote(LabelText(t)) = <<>> THEN Err("MissingLabel")
    ELSE NoError

\* the errors of the steps in the fixed order, and the first of them
StepErrors(t) ==
    <<LabelError(t), ValueError(Segment(t, 1)), RangeError(Segment(t, 2)),
      RangeError(Segment(t, 3)), NumberError(Segment(t, 4)), NumberError(Segment(t, 5))>>

FirstError(t) ==
    IF \A i \in 1..6 : StepErrors(t)[i] = NoError THEN NoError
    ELSE StepErrors(t)[CHOOSE i \in 1..6 :
                          /\ StepErrors(t)[i] # NoError
                          /\ \A j \in 1..(i - 1) : StepErrors(t)[j] = NoError]

\* C24: try_from returns the error of the first failing step in the order
\* MissingEqualsSign, LabelContainsSingleQuote, MissingLabel, MissingValue,
\* number of the value, UnknownUnit, warn, crit, min, max, and a record only
\* when no step fails.
C24_FirstErrorWins ==
    out.op = "try_from" =>
        IF LabelError(out.arg) # NoError THEN out.res = LabelError(out.arg)
        ELSE IF FirstError(out.arg) = NoError THEN out.res.tag = "Ok"
        ELSE out.res = FirstError(out.arg)

MonitoringStatus == {"OK", "Warning", "Critical", "Unknown"}

\* C25: status() of a record and of a set is OK, Warning or Critical, never
\* Unknown; an Undetermined record has status OK even with warn and crit
\* ranges set, and a set of Undetermined records only has status OK.
C25_NeverUnknown ==
    /\ \A i \in 1..Len(pds.data) :
           /\ Perfdata_status(pds.data[i]) \in MonitoringStatus \ {"Unknown"}
           /\ pds.data[i].unit.tag = "Undetermined" => Perfdata_status(pds.data[i]) = "OK"
    /\ out.op = "set_status" =>
           /\ out.res \in MonitoringStatus \ {"Unknown"}
           /\ (\A i \in 1..Len(out.arg[1].data) :
                   out.arg[1].data[i].unit.tag = "Undetermined") => out.res = "OK"

C25_Witness ==
    /\ out.op = "set_status"
    /\ Len(out.arg[1].data) = 2
    /\ \A i \in 1..2 :
           /\ out.arg[1].data[i].unit.tag = "Undetermined"
           /\ IsSome(out.arg[1].data[i].crit)
    /\ IsSome(out.arg[1].data[1].warn)
    /\ out.res = "OK"

\* C26: for every token on which try_from succeeds with a record r of
\* finite numbers, try_from(r.to_string()) succeeds with a record equal to
\* r, and formatting that record gives the same text again.
C26_CanonicalFixedPoint ==
    (out.op = "try_from_of_to_string" /\ FiniteRecord(out.arg[1])) =>
        /\ out.res.parsed.tag = "Ok"
        /\ PerfdataEq(out.res.parsed.val, out.arg[1])
        /\ Perfdata_fmt(out.res.parsed.val) = out.res.text

C26_Witness ==
    /\ out.op = "try_from_of_to_string"
    /\ text = <<"l", "=", "-", ".", "5", "s", ";", ";", "3", "0">>
    /\ out.res.text = <<"'", "l", "'", "=", "-", "0", ".", "5", "s", ";",
                        ";", "3", "0", ";", ";", ";">>
    /\ out.res.parsed = Ok(out.arg[1])

\* the label is not empty and holds neither `'` nor `=`
PlainLabel(l) == l # <<>> /\ ~Contains(l, "'") /\ ~Contains(l, "=")

\* the list holds one Ok result per record, equal to it, in order
ParsedBack(res, d) ==
    /\ res.tag = "Vec"
    /\ Len(res.val) = Len(d)
    /\ \A i \in 1..Len(d) : res.val[i].tag = "Ok" /\ PerfdataEq(res.val[i].val, d[i])

\* C27: for any set whose records have non-empty labels free of
\* `'` and `=`, parse_from_list(set.to_string()) returns one Ok result per
\* record, equal to the records in order, and nothing for the empty set.
C27_SetRoundTrip ==
    (/\ out.op = "parse_from_list_of_to_string"
     /\ \A i \in 1..Len(out.arg[1].data) : PlainLabel(out.arg[1].data[i].label)) =>
        ParsedBack(out.res, out.arg[1].data)

\* the range text with `~` moved to START and the START text moved to END
Mirrored(s) ==
    (IF StartsWith(s, "@") THEN <<"@">> ELSE <<>>) \o <<"~", ":">> \o StartText(s)

\* C28: from_str reads `~` in the END position as -infinity, as it does in
\* the START position: a text START`:~` whose START is a number parses to
\* the range of `~:`START (the bounds are swapped), `10:~` to the range of
\* `~:10`, and a bare `~` to outside(-infinity, 0); an error of such a text
\* can only come from its START text.
C28_TildeAsEnd ==
    (out.op = "from_str" /\ EndText(out.arg) = <<"~">>) =>
        LET st == StartText(out.arg)
            alert_inside == StartsWith(out.arg, "@")
        IN /\ ~HasColon(out.arg) =>
                  out.res = Ok([alert_inside |-> alert_inside,
                                start |-> NEG_INFINITY, end |-> Num(0)])
           /\ (st # <<>> /\ parse_float(st).ok /\ ~IsNaN(parse_float(st).v)) =>
                  /\ out.res.tag = "Ok"
                  /\ out.res.val.start = NEG_INFINITY
                  /\ ValEq(out.res.val.end, parse_float(st).v)
                  /\ from_str(Mirrored(out.arg)).tag = "Ok"
                  /\ RangeEq(out.res.val, from_str(Mirrored(out.arg)).val)
           /\ out.res.tag # "Ok" =>
                  /\ st \notin {<<>>, <<"~">>}
                  /\ ~parse_float(st).ok
                  /\ out.res = ParseValueError(parse_float(st).kind)
           /\ out.arg = <<"1", "0", ":", "~">> =>
                  /\ out.res = Ok([alert_inside |-> FALSE,
                                   start |-> NEG_INFINITY, end |-> Num(10)])
                  /\ out.res = from_str(<<"~", ":", "1", "0">>)
           /\ out.arg = <<"~">> =>
                  out.res = Ok([alert_inside |-> FALSE,
                                start |-> NEG_INFINITY, end |-> Num(0)])

C28_Witness ==
    /\ out.op = "from_str"
    /\ out.arg = <<"1", "0", ":", "~">>
    /\ rng = Some([alert_inside |-> FALSE, start |-> NEG_INFINITY, end |-> Num(10)])

\* C29: in parse_from_list the text before the next `=` is never a token of
\* its own: no result is MissingEqualsSign, the first record takes the
\* whole text before the first `=` as its label (trimmed, one pair of
\* enclosing quotes removed, interior whitespace kept), and a list
\* `junk a=1` (here `a a=1`) is the single Ok record labelled `junk a`.
C29_JunkJoinsLabel ==
    (out.op = "parse_from_list" /\ out.res.tag = "Vec") =>
        /\ \A i \in 1..Len(out.res.val) : out.res.val[i] # Err("MissingEqualsSign")
        /\ Find(Trim(out.arg), "=") >= 0 =>
               /\ Len(out.res.val) >= 1
               /\ out.res.val[1].tag = "Ok" =>
                      out.res.val[1].val.label = Unquote(LabelText(Trim(out.arg)))
        /\ out.arg = <<"a", " ", "a", "=", "1">> =>
               out.res.val = <<Ok(unit(<<"a", " ", "a">>, Num(1)))>>

C29_Witness ==
    /\ out.op = "parse_from_list"
    /\ out.arg = <<"a", " ", "a", "=", "1">>
    /\ Len(out.res.val) = 1
    /\ out.res.val[1].tag = "Ok"
    /\ out.res.val[1].val.label = <<"a", " ", "a">>
    /\ out.res.val[1].val.unit = Unit("None", Num(1))

====
